---- MODULE Spec2Model ----
(***************************************************************************)
(* Model of the backup engine pseudo-code: Task (source-state locking,     *)
(* checkpoint creation) and the Checkpoint status machine of               *)
(* doc/PM/framework/Pseudo-Code/engine.py.                                 *)
(*                                                                         *)
(* A call that blocks on a remote request (source prepare, stop of the     *)
(* source / target side, wait_status) is an entry of the bag `calls`; the  *)
(* step that lets it continue is a separate action, so other calls on the  *)
(* same Task interleave with it.  A Python exception (KeyError on a        *)
(* missing dict key, AttributeError on None, a failed rpc) ends the call   *)
(* at the statement that raises and keeps what was assigned before it.     *)
(***************************************************************************)
EXTENDS Integers, Sequences, FiniteSets, Bags, TLC

VARIABLES
    source_states,            \* Task.source_states: id -> LockedState
    next_source_state_id,     \* Task.next_source_state_id
    locked_source_state_id,   \* Task.locked_source_state_id (None or an id)
    checkpoints,              \* Task.checkpoints: version -> Checkpoint
    next_checkpoint_version,  \* Task.next_checkpoint_version
    calls,                    \* bag of blocked calls [ver, pc]
    last_call,                \* the handler step taken last and what it returned
    rpcs,                     \* the remote requests issued by that step, in order
    created,                  \* versions handed out by create_checkpoint, in order
    succeeded,                \* the versions that have entered SUCCESS
    files_db,                 \* source.py files_db: the files added, the scan-finish flag
    scans,                    \* the source_scan_file_list threads: where each one is
    next_source_id,           \* Engine.next_source_id
    sources,                  \* Engine.sources: id -> the output types of the Source
    next_target_id,           \* Engine.next_target_id
    targets,                  \* Engine.targets: id -> the accept types of the Target
    tasks,                    \* the Tasks made by Engine.create_task, in order
    task_mgr,                 \* BackupEngine.task_mgr: backup_task_id -> task_info
    target_check_points,      \* the target: check points created and finished
    task_checkpoint_db,       \* backup_task_id -> the checkpoint db of the task
    workers,                  \* bag of the worker threads in their loops
    creating,                 \* bag of the create_backup_task calls at an await
    chunk_db,                 \* chunk_db: the chunks allocated, the last one is current
    pulls                     \* bag of the next_chunk and chunk read calls in progress

vars == <<source_states, next_source_state_id, locked_source_state_id,
          checkpoints, next_checkpoint_version, calls, last_call, rpcs,
          created, succeeded, files_db, scans,
          next_source_id, sources, next_target_id, targets, tasks,
          task_mgr, target_check_points, task_checkpoint_db, workers, creating,
          chunk_db, pulls>>

task_vars == <<source_states, next_source_state_id, locked_source_state_id,
               checkpoints, next_checkpoint_version>>

scan_vars == <<files_db, scans>>

registry_vars == <<next_source_id, sources, next_target_id, targets, tasks>>

backup_vars == <<task_mgr, target_check_points, task_checkpoint_db, workers, creating>>

pack_vars == <<chunk_db, pulls>>

\* what a step of Task or Checkpoint does not touch
checkpoint_others == <<registry_vars, backup_vars, pack_vars>>

\* the parts of the system a specification of Task and Checkpoint leaves out
other_vars == <<scan_vars, registry_vars, backup_vars, pack_vars>>

----------------------------------------------------------------------------
(* Bounds of the model *)

MaxCheckpoints == 2
MaxLocks == 2
MaxLockCalls == 5
MaxCalls == 2
MaxFiles == 2
MaxScans == 2
MaxSources == 1
MaxTargets == 1
MaxTasks == 1
MaxBackupTasks == 2
MaxCreating == 2
MaxWorkers == 2
MaxChunks == 2
MaxLiveWorkers == 3
MaxChunkRecords == 2
MaxCapacity == 2
MaxOffset == 3

----------------------------------------------------------------------------
(* Values *)

\* Python None where an id or a version is expected (ids and versions start at 1)
None == 0

\* Python None where an object is expected
Null == <<>>

STATUS_STANDBY == 0
STATUS_PREPARING == 1
STATUS_PREPARE_STARTED == 2
STATUS_STARTING == 3
STATUS_SOURCE_STARTED == 4
STATUS_START == 5
STATUS_STOPPING == 6
STATUS_SOURCE_STOPPED == 7
STATUS_TARGET_STOPPED == 8
STATUS_STOPPED == 9
STATUS_SUCCESS == 10
STATUS_FAILED == 11

\* what SourceTask.original_state may answer
OriginalStates == {"snapshot:1", "readonly:{original_state for each item}"}

\* SourceTask.lock_state: snapshot, or the items set read-only
LockStateOf(original_state) ==
    IF original_state = "snapshot:1"
    THEN "path of the snapshot"
    ELSE "path of the root directory"

\* TargetTask.target_checkpoint(): the handle of the target side
TargetCheckPoint == <<"TargetCheckPoint">>

\* Sourcelocked(source_task, locked_state_id, locked_state)
Sourcelocked(locked_state_id, locked_state) == <<locked_state_id, locked_state>>

\* Checkpoint.__init__
Checkpoint(locked_state_id, prev_version) ==
    [locked_state_id |-> locked_state_id,
     prev_version |-> prev_version,
     target_checkpoint |-> Null,
     source_locked |-> Null,
     status |-> STATUS_STANDBY]

Request(method, param) == [method |-> method, param |-> param]

Returned(op, ver, ret) == [op |-> op, ver |-> ver, ret |-> ret]

Call(ver, pc) == [ver |-> ver, pc |-> pc]

Blocked(ver, pc) == BagIn(Call(ver, pc), calls)

Spawn(ver, pc) == calls (+) SetToBag({Call(ver, pc)})

Finish(ver, pc) == calls (-) SetToBag({Call(ver, pc)})

Move(ver, from, to) == (calls (-) SetToBag({Call(ver, from)})) (+) SetToBag({Call(ver, to)})

Without(f, k) == [x \in DOMAIN f \ {k} |-> f[x]]

With(f, k, val) == [x \in DOMAIN f \cup {k} |-> IF x = k THEN val ELSE f[x]]

SetStatus(ver, status) == [checkpoints EXCEPT ![ver].status = status]

----------------------------------------------------------------------------
(* Initial state: Task.__init__ *)

Init ==
    /\ source_states = <<>>
    /\ next_source_state_id = 1
    /\ locked_source_state_id = None
    /\ checkpoints = <<>>
    /\ next_checkpoint_version = 1
    /\ calls = EmptyBag
    /\ last_call = Returned("__init__", None, "None")
    /\ rpcs = <<>>
    /\ created = <<>>
    /\ succeeded = {}
    /\ files_db = [files |-> <<>>, scan_finish |-> FALSE]
    /\ scans = <<>>
    /\ next_source_id = 1
    /\ sources = <<>>
    /\ next_target_id = 1
    /\ targets = <<>>
    /\ tasks = <<>>
    /\ task_mgr = <<>>
    /\ target_check_points = [created |-> <<>>, finished |-> {}, uploaded |-> <<>>]
    /\ task_checkpoint_db = <<>>
    /\ workers = EmptyBag
    /\ creating = EmptyBag
    /\ chunk_db = <<>>
    /\ pulls = EmptyBag

----------------------------------------------------------------------------
(* Task.lock_source / Task.unlock_source *)

\* the request of unlock_source for the lock recorded under id
UnlockRequest(id) == Request("unlock_state", source_states[id].original_state)

\* lock_source asking for the new original_state before it releases the old lock
LockSourceRequestsReleaseLate(held, original_state, fail) ==
    (IF fail = "unlock_state" THEN <<>>
     ELSE <<Request("original_state", "source_param")>>)
    \o (IF held THEN <<UnlockRequest(locked_source_state_id)>> ELSE <<>>)
    \o (IF fail \in {"unlock_state", "original_state"} THEN <<>>
        ELSE <<Request("lock_state", original_state)>>)

\* the requests lock_source issues, in order, when the request `fail` fails
\* (held: a LockedState is recorded under locked_source_state_id)
LockSourceRequests(held, original_state, fail) ==
    (IF held THEN <<UnlockRequest(locked_source_state_id)>> ELSE <<>>)
    \o (IF fail = "unlock_state" THEN <<>>
        ELSE <<Request("original_state", "source_param")>>)
    \o (IF fail \in {"unlock_state", "original_state"} THEN <<>>
        ELSE <<Request("lock_state", original_state)>>)

\* the id lock_source records the new lock under
FreshSourceStateId == next_source_state_id

\* the entry lock_source stores: {original_state, locked_state}
LockedState(original_state) ==
    [original_state |-> original_state, locked_state |-> LockStateOf(original_state)]

LockSource(original_state, fail) ==
    /\ LET truthy == locked_source_state_id # None
           held == truthy /\ locked_source_state_id \in DOMAIN source_states
           released == IF held THEN Without(source_states, locked_source_state_id)
                       ELSE source_states
       IN  IF truthy /\ ~held
           THEN \* unlock_source: source_states[...] raises KeyError
                /\ fail = "none"
                /\ rpcs' = <<>>
                /\ last_call' = Returned("lock_source", None, "KeyError")
                /\ UNCHANGED task_vars
           ELSE /\ fail = "unlock_state" => held
                /\ rpcs' = LockSourceRequests(held, original_state, fail)
                /\ last_call' = Returned("lock_source", None,
                                         IF fail = "none" THEN "None" ELSE "RpcError")
                /\ CASE fail = "unlock_state" ->
                          UNCHANGED <<source_states, locked_source_state_id,
                                      next_source_state_id>>
                     [] fail = "original_state" ->
                          /\ source_states' = released
                          /\ locked_source_state_id' = None
                          /\ UNCHANGED next_source_state_id
                     [] fail = "lock_state" ->
                          /\ source_states' = released
                          /\ locked_source_state_id' = FreshSourceStateId
                          /\ next_source_state_id' = next_source_state_id + 1
                     [] OTHER ->
                          /\ locked_source_state_id' = FreshSourceStateId
                          /\ next_source_state_id' = next_source_state_id + 1
                          /\ source_states' = With(released, FreshSourceStateId,
                                                   LockedState(original_state))
                /\ UNCHANGED <<checkpoints, next_checkpoint_version>>
    /\ UNCHANGED <<calls, created, succeeded>>

UnlockSource(fail) ==
    /\ IF locked_source_state_id = None
       THEN /\ fail = "none"
            /\ rpcs' = <<>>
            /\ last_call' = Returned("unlock_source", None, "None")
            /\ UNCHANGED task_vars
       ELSE IF locked_source_state_id \notin DOMAIN source_states
       THEN /\ fail = "none"
            /\ rpcs' = <<>>
            /\ last_call' = Returned("unlock_source", None, "KeyError")
            /\ UNCHANGED task_vars
       ELSE /\ rpcs' = <<UnlockRequest(locked_source_state_id)>>
            /\ IF fail = "unlock_state"
               THEN /\ last_call' = Returned("unlock_source", None, "RpcError")
                    /\ UNCHANGED task_vars
               ELSE /\ fail = "none"
                    /\ last_call' = Returned("unlock_source", None, "None")
                    /\ source_states' = Without(source_states, locked_source_state_id)
                    /\ locked_source_state_id' = None
                    /\ UNCHANGED <<next_source_state_id, checkpoints,
                                   next_checkpoint_version>>
    /\ UNCHANGED <<calls, created, succeeded>>

----------------------------------------------------------------------------
(* Task.create_checkpoint *)

\* find_last_checkpoint(): the Checkpoint with the highest version, None if none
FindLastCheckpoint ==
    IF DOMAIN checkpoints = {} THEN None
    ELSE CHOOSE v \in DOMAIN checkpoints : \A w \in DOMAIN checkpoints : w <= v

\* Checkpoint.is_finish(): the status is terminal
IsFinish(checkpoint) == checkpoint.status \in {STATUS_SUCCESS, STATUS_FAILED}

\* create_checkpoint taking the version before it looks at the last Checkpoint
CreateCheckpointRejectedAfterVersion ==
    /\ last_call' = Returned("create_checkpoint", None, "None")
    /\ next_checkpoint_version' = next_checkpoint_version + 1
    /\ UNCHANGED <<source_states, next_source_state_id, locked_source_state_id,
                   checkpoints, created>>

\* the early return of create_checkpoint
CreateCheckpointRejected ==
    /\ last_call' = Returned("create_checkpoint", None, "None")
    /\ UNCHANGED <<task_vars, created>>

\* create_checkpoint forgetting to advance the counter
VersionAfterNotAdvanced(version) == version

\* the version counter after a Checkpoint was created
VersionAfter(version) == version + 1

CreateCheckpointAccepted(is_delta, last) ==
    LET version == next_checkpoint_version
        prev_version == IF is_delta THEN last ELSE None
        checkpoint == Checkpoint(locked_source_state_id, prev_version)
    IN  /\ next_checkpoint_version' = VersionAfter(next_checkpoint_version)
        /\ checkpoints' = With(checkpoints, version, checkpoint)
        /\ created' = Append(created, version)
        /\ last_call' = Returned("create_checkpoint", version, "checkpoint")
        /\ UNCHANGED <<source_states, next_source_state_id, locked_source_state_id>>

CreateCheckpoint(is_delta) ==
    /\ LET last == FindLastCheckpoint
       IN  IF last # None /\ ~IsFinish(checkpoints[last])
           THEN CreateCheckpointRejected
           ELSE CreateCheckpointAccepted(is_delta, last)
    /\ rpcs' = <<>>
    /\ UNCHANGED <<calls, succeeded>>

----------------------------------------------------------------------------
(* Checkpoint.prepare_source / prepare_source_without_status *)

\* prepare_source_without_status up to the request source_locked.prepare():
\* the status was just set to `status`; `pc` is where the caller blocks
PrepareSourceWithoutStatus(ver, op, status, pc) ==
    LET id == checkpoints[ver].locked_state_id
    IN  IF id \notin DOMAIN source_states
        THEN \* self.task.source_states[self.locked_state_id] raises KeyError
             /\ checkpoints' = SetStatus(ver, status)
             /\ rpcs' = <<>>
             /\ last_call' = Returned(op, ver, "KeyError")
             /\ UNCHANGED calls
        ELSE /\ checkpoints' = [checkpoints EXCEPT
                    ![ver].status = status,
                    ![ver].source_locked =
                        Sourcelocked(id, source_states[id].locked_state)]
             /\ rpcs' = <<Request("prepare", "source_param")>>
             /\ last_call' = Returned(op, ver, "blocked")
             /\ calls' = Spawn(ver, pc)

\* the status after source_locked.prepare() answered
StatusAfterPrepare(status, is_success) ==
    IF is_success
    THEN IF status = STATUS_PREPARING THEN STATUS_PREPARE_STARTED
         ELSE IF status = STATUS_STARTING THEN STATUS_SOURCE_STARTED
         ELSE status
    ELSE STATUS_FAILED

PrepareSource(ver) ==
    /\ ver \in DOMAIN checkpoints
    /\ IF checkpoints[ver].status \in {STATUS_STANDBY, STATUS_STOPPED, STATUS_FAILED}
       THEN PrepareSourceWithoutStatus(ver, "prepare_source", STATUS_PREPARING,
                                       "prepare_source:prepare")
       ELSE /\ last_call' = Returned("prepare_source", ver, "None")
            /\ rpcs' = <<>>
            /\ UNCHANGED <<checkpoints, calls>>
    /\ UNCHANGED <<source_states, next_source_state_id, locked_source_state_id,
                   next_checkpoint_version, created, succeeded>>

\* source_locked.prepare() answers a prepare_source() call, which then returns
PrepareSourceReturns(ver, is_success) ==
    /\ Blocked(ver, "prepare_source:prepare")
    /\ checkpoints' = SetStatus(ver, StatusAfterPrepare(checkpoints[ver].status, is_success))
    /\ calls' = Finish(ver, "prepare_source:prepare")
    /\ last_call' = Returned("prepare_source:prepare", ver, "None")
    /\ rpcs' = <<>>
    /\ UNCHANGED <<source_states, next_source_state_id, locked_source_state_id,
                   next_checkpoint_version, created, succeeded>>

----------------------------------------------------------------------------
(* Checkpoint.transfer / wait_status *)

\* transfer() without STARTING in the "pending" branch
TransferResultWithoutStarting(status) ==
    IF status \in {STATUS_SOURCE_STARTED, STATUS_START}
    THEN "pending"
    ELSE IF status \in {STATUS_STOPPING, STATUS_SOURCE_STOPPED, STATUS_TARGET_STOPPED}
    THEN "invalid-status"
    ELSE IF status = STATUS_SUCCESS
    THEN "ok"
    ELSE ""

\* what transfer() returns at once, "" when it goes on to wait_status
TransferResult(status) ==
    IF status \in {STATUS_STARTING, STATUS_SOURCE_STARTED, STATUS_START}
    THEN "pending"
    ELSE IF status \in {STATUS_STOPPING, STATUS_SOURCE_STOPPED, STATUS_TARGET_STOPPED}
    THEN "invalid-status"
    ELSE IF status = STATUS_SUCCESS
    THEN "ok"
    ELSE ""

Transfer(ver) ==
    /\ ver \in DOMAIN checkpoints
    /\ LET status == checkpoints[ver].status
       IN  IF status \in {STATUS_STANDBY, STATUS_STOPPED, STATUS_FAILED}
           THEN PrepareSourceWithoutStatus(ver, "transfer", STATUS_STARTING,
                                           "transfer:prepare")
           ELSE IF status \in {STATUS_PREPARING, STATUS_PREPARE_STARTED}
           THEN /\ checkpoints' = SetStatus(ver,
                       IF status = STATUS_PREPARING THEN STATUS_STARTING
                       ELSE STATUS_SOURCE_STARTED)
                /\ calls' = Spawn(ver, "transfer:wait_status")
                /\ rpcs' = <<>>
                /\ last_call' = Returned("transfer", ver, "blocked")
           ELSE IF TransferResult(status) # ""
           THEN /\ last_call' = Returned("transfer", ver, TransferResult(status))
                /\ rpcs' = <<>>
                /\ UNCHANGED <<checkpoints, calls>>
           ELSE /\ calls' = Spawn(ver, "transfer:wait_status")
                /\ rpcs' = <<>>
                /\ last_call' = Returned("transfer", ver, "blocked")
                /\ UNCHANGED checkpoints
    /\ UNCHANGED <<source_states, next_source_state_id, locked_source_state_id,
                   next_checkpoint_version, created, succeeded>>

\* source_locked.prepare() answers a transfer() call, which goes on to wait_status
TransferPrepareReturns(ver, is_success) ==
    /\ Blocked(ver, "transfer:prepare")
    /\ checkpoints' = SetStatus(ver, StatusAfterPrepare(checkpoints[ver].status, is_success))
    /\ calls' = Move(ver, "transfer:prepare", "transfer:wait_status")
    /\ last_call' = Returned("transfer:prepare", ver, "blocked")
    /\ rpcs' = <<>>
    /\ UNCHANGED <<source_states, next_source_state_id, locked_source_state_id,
                   next_checkpoint_version, created, succeeded>>

\* wait_status([SOURCE_STARTED, FAILED]) returns; the target side is started
TransferWaitReturns(ver, fail) ==
    /\ Blocked(ver, "transfer:wait_status")
    /\ checkpoints[ver].status \in {STATUS_SOURCE_STARTED, STATUS_FAILED}
    /\ calls' = Finish(ver, "transfer:wait_status")
    /\ rpcs' = <<Request("target_checkpoint", "target_param")>>
               \o (IF fail = "target_checkpoint" THEN <<>>
                   ELSE <<Request("transfer", "target_param")>>)
    /\ IF fail = "none"
       THEN /\ checkpoints' = [checkpoints EXCEPT ![ver].target_checkpoint = TargetCheckPoint]
            /\ last_call' = Returned("transfer:wait_status", ver, "None")
       ELSE /\ last_call' = Returned("transfer:wait_status", ver, "RpcError")
            /\ UNCHANGED checkpoints
    /\ UNCHANGED <<source_states, next_source_state_id, locked_source_state_id,
                   next_checkpoint_version, created, succeeded>>

----------------------------------------------------------------------------
(* Checkpoint.stop *)

\* stop(): the status becomes STOPPING, then source_locked.stop() is requested
Stop(ver) ==
    /\ ver \in DOMAIN checkpoints
    /\ checkpoints' = SetStatus(ver, STATUS_STOPPING)
    /\ IF checkpoints[ver].source_locked = Null
       THEN \* None.stop() raises AttributeError
            /\ rpcs' = <<>>
            /\ last_call' = Returned("stop", ver, "AttributeError")
            /\ UNCHANGED calls
       ELSE /\ rpcs' = <<Request("source_locked.stop", "source_param")>>
            /\ last_call' = Returned("stop", ver, "blocked")
            /\ calls' = Spawn(ver, "stop:source_locked.stop")
    /\ UNCHANGED <<source_states, next_source_state_id, locked_source_state_id,
                   next_checkpoint_version, created, succeeded>>

\* source_locked.stop() answered; then target_checkpoint.stop() is requested
StopSourceReturns(ver) ==
    /\ Blocked(ver, "stop:source_locked.stop")
    /\ checkpoints' = SetStatus(ver, STATUS_SOURCE_STOPPED)
    /\ IF checkpoints[ver].target_checkpoint = Null
       THEN \* None.stop() raises AttributeError
            /\ rpcs' = <<>>
            /\ last_call' = Returned("stop:source_locked.stop", ver, "AttributeError")
            /\ calls' = Finish(ver, "stop:source_locked.stop")
       ELSE /\ rpcs' = <<Request("target_checkpoint.stop", "target_param")>>
            /\ last_call' = Returned("stop:source_locked.stop", ver, "blocked")
            /\ calls' = Move(ver, "stop:source_locked.stop", "stop:target_checkpoint.stop")
    /\ UNCHANGED <<source_states, next_source_state_id, locked_source_state_id,
                   next_checkpoint_version, created, succeeded>>

\* target_checkpoint.stop() answered
StopTargetReturns(ver) ==
    /\ Blocked(ver, "stop:target_checkpoint.stop")
    /\ checkpoints' = SetStatus(ver, STATUS_TARGET_STOPPED)
    /\ calls' = Move(ver, "stop:target_checkpoint.stop", "stop:stopped")
    /\ rpcs' = <<>>
    /\ last_call' = Returned("stop:target_checkpoint.stop", ver, "blocked")
    /\ UNCHANGED <<source_states, next_source_state_id, locked_source_state_id,
                   next_checkpoint_version, created, succeeded>>

\* the last assignment of stop()
StopReturns(ver) ==
    /\ Blocked(ver, "stop:stopped")
    /\ checkpoints' = SetStatus(ver, STATUS_STOPPED)
    /\ calls' = Finish(ver, "stop:stopped")
    /\ rpcs' = <<>>
    /\ last_call' = Returned("stop:stopped", ver, "None")
    /\ UNCHANGED <<source_states, next_source_state_id, locked_source_state_id,
                   next_checkpoint_version, created, succeeded>>

----------------------------------------------------------------------------
(* The target worker's effect on the status (rows SOURCE_STARTED -> START   *)
(* and START -> SUCCESS of the status table; no statement of engine.py      *)
(* assigns these two statuses)                                              *)

\* the target transfer begins: the transfer() call that started the target
\* side has returned
TargetTransferBegins(ver) ==
    /\ ver \in DOMAIN checkpoints
    /\ checkpoints[ver].status = STATUS_SOURCE_STARTED
    /\ checkpoints[ver].target_checkpoint # Null
    /\ ~Blocked(ver, "transfer:prepare")
    /\ ~Blocked(ver, "transfer:wait_status")
    /\ checkpoints' = SetStatus(ver, STATUS_START)
    /\ rpcs' = <<>>
    /\ last_call' = Returned("target_worker", ver, "START")
    /\ UNCHANGED <<source_states, next_source_state_id, locked_source_state_id,
                   next_checkpoint_version, calls, created, succeeded>>

\* all chunks are uploaded and the source scan has finished
TargetTransferFinishes(ver) ==
    /\ ver \in DOMAIN checkpoints
    /\ checkpoints[ver].status = STATUS_START
    /\ checkpoints' = SetStatus(ver, STATUS_SUCCESS)
    /\ succeeded' = succeeded \cup {ver}
    /\ rpcs' = <<>>
    /\ last_call' = Returned("target_worker", ver, "SUCCESS")
    /\ UNCHANGED <<source_states, next_source_state_id, locked_source_state_id,
                   next_checkpoint_version, calls, created>>

----------------------------------------------------------------------------
(* The source service: Sourcelocked.prepare and source_scan_file_list of    *)
(* source.py.  files_db is the module-level catalog the scan threads write. *)

\* the items of the locked source, in the order the scan enumerates them
SourceEntitiy == [i \in 1..MaxFiles |-> i]

\* where a scan thread is when it has returned
ScanEnded == MaxFiles + 2

\* Sourcelocked.prepare(): a new source_scan_file_list thread is started
Prepare ==
    /\ scans' = Append(scans, 1)
    /\ UNCHANGED files_db

\* the source answers a prepare request: the thread is started when it succeeds
PrepareAnswered(is_success) ==
    IF is_success THEN Prepare ELSE UNCHANGED scan_vars

\* files_db.add_file(file): the record is appended
AddFile(file) == [files_db EXCEPT !.files = Append(@, file)]

\* one step of thread t of source_scan_file_list: the next add_file of the
\* loop, or set_scan_finish after it, with which the thread returns
SourceScanFileList(t) ==
    /\ t \in DOMAIN scans
    /\ scans[t] < ScanEnded
    /\ IF scans[t] <= MaxFiles
       THEN /\ files_db' = AddFile(SourceEntitiy[scans[t]])
            /\ last_call' = Returned("source_scan_file_list", None, "add_file")
       ELSE /\ files_db' = [files_db EXCEPT !.scan_finish = TRUE]
            /\ last_call' = Returned("source_scan_file_list", None, "set_scan_finish")
    /\ scans' = [scans EXCEPT ![t] = @ + 1]
    /\ rpcs' = <<>>
    /\ UNCHANGED <<task_vars, calls, created, succeeded>>

----------------------------------------------------------------------------
(* The chunk pipeline: Checkpoint.next_chunk and Chunk.read.  A file of     *)
(* files_db is named by its position in files_db.files; a file block is the *)
(* whole file (Checkpoints here are not delta, Chunks not compressed).  The *)
(* target pulls with one call at a time; a call that waits for a new file   *)
(* is an entry of `pulls`.                                                  *)

FREE_LIMIT == 1

\* the size of a file of the source: file i has i bytes
FileSize(file) == file

\* the files that are in a file block of a chunk
PackedFiles(db) ==
    UNION {{db[k].blocks[b].file : b \in DOMAIN db[k].blocks} : k \in DOMAIN db}

\* files_db.list_unpack_files(): the files not yet in a chunk, in insertion order
ListUnpackFilesOf(db) ==
    SelectSeq([i \in 1..Len(files_db.files) |-> i],
              LAMBDA i : i \notin PackedFiles(db))

ListUnpackFiles == ListUnpackFilesOf(chunk_db)

RECURSIVE SumLengths(_)
SumLengths(blocks) ==
    IF blocks = <<>> THEN 0
    ELSE Head(blocks).length + SumLengths(Tail(blocks))

\* Chunk.real_len(): the bytes of the file blocks of the chunk
RealLen(chunk) == SumLengths(chunk.blocks)

\* file_block_at(offset): the block of the chunk that holds the offset, or None
FileBlockAt(chunk, offset) ==
    LET holds(b) ==
            /\ SumLengths(SubSeq(chunk.blocks, 1, b - 1)) <= offset
            /\ offset < SumLengths(SubSeq(chunk.blocks, 1, b))
    IN  IF \E b \in DOMAIN chunk.blocks : holds(b)
        THEN CHOOSE b \in DOMAIN chunk.blocks : holds(b)
        ELSE None

\* select_file(files): the first of the unpacked files
SelectFile(files) == Head(files)

\* the file block of a file
FileBlock(file) == [file |-> file, length |-> FileSize(files_db.files[file])]

\* chunk_db.add_new_chunk(): a new chunk becomes the current one
AddNewChunk(ver, capacity) ==
    Append(chunk_db, [checkpoint |-> ver, capacity |-> capacity,
                      blocks |-> <<>>, finish |-> FALSE])

\* chunk_db.add_file_block(file_block): the block goes to the current chunk
AddFileBlock(db, file_block) ==
    [db EXCEPT ![Len(db)].blocks = Append(@, file_block)]

\* chunk_db.set_finish(): the current chunk is finished
SetFinish(db) == [db EXCEPT ![Len(db)].finish = TRUE]

Pull(op, pc, ver, chunk, capacity) ==
    [op |-> op, pc |-> pc, ver |-> ver, chunk |-> chunk, capacity |-> capacity]

\* next_chunk up to the test of the scan-finish flag
NextChunk(ver, capacity) ==
    /\ ver \in DOMAIN checkpoints
    /\ IF ListUnpackFiles # <<>>
       THEN /\ chunk_db' = AddNewChunk(ver, capacity)
            /\ last_call' = Returned("next_chunk", Len(chunk_db) + 1, "chunk")
            /\ UNCHANGED pulls
       ELSE IF checkpoints[ver].source_locked = Null
       THEN /\ last_call' = Returned("next_chunk", None, "AttributeError")
            /\ UNCHANGED <<chunk_db, pulls>>
       ELSE /\ pulls' = pulls (+) SetToBag({Pull("next_chunk", "is_files_scan_finish",
                                                 ver, None, capacity)})
            /\ last_call' = Returned("next_chunk", None, "blocked")
            /\ UNCHANGED chunk_db
    /\ rpcs' = <<>>

\* next_chunk found no file: none is returned when the scan has finished,
\* else the call waits for a new file
NextChunkTestsScanFinish(call) ==
    /\ BagIn(call, pulls)
    /\ call.pc = "is_files_scan_finish"
    /\ IF files_db.scan_finish
       THEN /\ pulls' = pulls (-) SetToBag({call})
            /\ last_call' = Returned("next_chunk", None, "None")
       ELSE /\ pulls' = (pulls (-) SetToBag({call}))
                        (+) SetToBag({Pull("next_chunk", "wait_new_file", call.ver,
                                           None, call.capacity)})
            /\ last_call' = Returned("next_chunk:is_files_scan_finish", None, "blocked")
    /\ rpcs' = <<>>
    /\ UNCHANGED chunk_db

\* wait_new_file() returns when files_db has grown or the scan has finished
WaitNewFileReturns == ListUnpackFiles # <<>> \/ files_db.scan_finish

\* next_chunk after wait_new_file: the files are listed again, the chunk allocated
NextChunkWaitReturns(call) ==
    /\ BagIn(call, pulls)
    /\ call.op = "next_chunk"
    /\ call.pc = "wait_new_file"
    /\ WaitNewFileReturns
    /\ chunk_db' = AddNewChunk(call.ver, call.capacity)
    /\ pulls' = pulls (-) SetToBag({call})
    /\ last_call' = Returned("next_chunk", Len(chunk_db) + 1, "chunk")
    /\ rpcs' = <<>>

\* whether read_from_source hands its file block to chunk_db.add_file_block
AddsFileBlockAlways(is_new_block) == is_new_block \in BOOLEAN

AddsFileBlock(is_new_block) == is_new_block

\* is_last_one(): no file is left to pack
IsLastOne(db) == ListUnpackFilesOf(db) = <<>>

\* the chunk is full: its free space is below FREE_LIMIT
IsFull(chunk) == chunk.capacity - RealLen(chunk) < FREE_LIMIT

\* the end of read_from_source: the block is added when it is new, the
\* current chunk finished when this chunk is full or the last one
ReadFromSourceEnds(k, file_block, is_new_block) ==
    LET db == IF AddsFileBlock(is_new_block)
              THEN AddFileBlock(chunk_db, file_block) ELSE chunk_db
    IN  /\ chunk_db' = IF IsFull(db[k]) \/ (files_db.scan_finish /\ IsLastOne(db))
                       THEN SetFinish(db) ELSE db
        /\ last_call' = Returned("read_from_source", k, "content")

\* read_from_source up to its return or to wait_new_files
ReadFromSource(k, offset) ==
    LET file_block == FileBlockAt(chunk_db[k], offset)
        files == ListUnpackFiles
    IN  IF file_block # None
        THEN /\ ReadFromSourceEnds(k, chunk_db[k].blocks[file_block], FALSE)
             /\ UNCHANGED pulls
        ELSE IF files = <<>>
        THEN IF IsFull(chunk_db[k]) \/ files_db.scan_finish
             THEN /\ chunk_db' = SetFinish(chunk_db)
                  /\ last_call' = Returned("read_from_source", k, "None")
                  /\ UNCHANGED pulls
             ELSE /\ pulls' = pulls (+) SetToBag({Pull("read_from_source",
                                                       "wait_new_files",
                                                       chunk_db[k].checkpoint, k,
                                                       chunk_db[k].capacity)})
                  /\ last_call' = Returned("read_from_source", k, "blocked")
                  /\ UNCHANGED chunk_db
        ELSE /\ ReadFromSourceEnds(k, FileBlock(SelectFile(files)), TRUE)
             /\ UNCHANGED pulls

\* Chunk.read(offset, len): from the source when the Checkpoint is SUCCESS,
\* from the target otherwise
Read(k, offset) ==
    /\ k \in DOMAIN chunk_db
    /\ IF checkpoints[chunk_db[k].checkpoint].status = STATUS_SUCCESS
       THEN ReadFromSource(k, offset)
       ELSE /\ last_call' = Returned("read_from_target", k, "None")
            /\ UNCHANGED <<chunk_db, pulls>>
    /\ rpcs' = <<>>

\* read_from_source after wait_new_files: the files are listed again
ReadWaitReturns(call) ==
    /\ BagIn(call, pulls)
    /\ call.op = "read_from_source"
    /\ call.pc = "wait_new_files"
    /\ WaitNewFileReturns
    /\ pulls' = pulls (-) SetToBag({call})
    /\ IF ListUnpackFiles = <<>>
       THEN /\ last_call' = Returned("read_from_source", call.chunk, "Exception")
            /\ UNCHANGED chunk_db
       ELSE ReadFromSourceEnds(call.chunk, FileBlock(SelectFile(ListUnpackFiles)), TRUE)
    /\ rpcs' = <<>>

----------------------------------------------------------------------------
(* Engine: the registry of Sources and Targets, create_task *)

\* the data types a Source can output and a Target can accept
Modes == {"chunklist", "folder2chunk", "chunk2folder", "folder"}

\* register_source: output_types is what the Source at source_url will answer
RegisterSource(output_types) ==
    /\ sources' = With(sources, next_source_id, output_types)
    /\ next_source_id' = next_source_id + 1
    /\ last_call' = Returned("register_source", next_source_id, "source_id")
    /\ rpcs' = <<>>
    /\ UNCHANGED <<next_target_id, targets, tasks>>

\* register_target: accept_types is what the Target at target_url will answer
RegisterTarget(accept_types) ==
    /\ targets' = With(targets, next_target_id, accept_types)
    /\ next_target_id' = next_target_id + 1
    /\ last_call' = Returned("register_target", next_target_id, "target_id")
    /\ rpcs' = <<>>
    /\ UNCHANGED <<next_source_id, sources, tasks>>

\* data_type = target_accept_types.intersect(source_output_types)
DataType(target_accept_types, source_output_types) ==
    target_accept_types \cap source_output_types

\* the Task create_task constructs
Task(source_id, target_id, data_type) ==
    [source_id |-> source_id, target_id |-> target_id, data_type |-> data_type]

CreateTask(source_id, target_id) ==
    /\ IF target_id \notin DOMAIN targets \/ source_id \notin DOMAIN sources
       THEN \* self.targets[target_id] / self.sources[source_id] raises KeyError
            /\ last_call' = Returned("create_task", None, "KeyError")
            /\ rpcs' = <<>>
            /\ UNCHANGED tasks
       ELSE /\ rpcs' = <<Request("accept_types", target_id),
                         Request("output_types", source_id)>>
            /\ tasks' = Append(tasks, Task(source_id, target_id,
                                           DataType(targets[target_id],
                                                    sources[source_id])))
            /\ last_call' = Returned("create_task", Len(tasks) + 1, "task")
    /\ UNCHANGED <<next_source_id, sources, next_target_id, targets>>

----------------------------------------------------------------------------
(* BackupEngine of demo.py: create_backup_task, resume and pause, and the   *)
(* two worker threads of a chunklist task.  There is one source entity and  *)
(* one target.  A coroutine waiting at an await is an entry of `creating`,  *)
(* a thread in its loop an entry of `workers`; a thread that returns is     *)
(* removed.  A chunk is named by its ordinal in the source's chunk list.    *)

max_pending_size == 1

\* lines 56-65: the task mode for the modes of the target and of the source
TaskMode(target_mode, source_mode) ==
    IF target_mode = "chunklist" /\ source_mode = "chunklist" THEN "chunklist"
    ELSE IF target_mode = "folder" /\ source_mode = "folder" THEN "folder"
    ELSE IF target_mode = "folder" /\ source_mode = "chunklist" THEN "chunk2folder"
    ELSE IF target_mode = "chunklist" /\ source_mode = "folder" THEN "folder2chunk"
    ELSE "Not supported mode"

\* target.get_last_check_point: the last finished check point, 0 when none
LastCheckPoint ==
    IF target_check_points.finished = {} THEN 0
    ELSE CHOOSE v \in target_check_points.finished :
             \A w \in target_check_points.finished : w <= v

\* the task of the source entity and the target that is not finished, None if none
UnfinishedTask ==
    IF \E id \in DOMAIN task_mgr : task_mgr[id].state # "finish"
    THEN CHOOSE id \in DOMAIN task_mgr : task_mgr[id].state # "finish"
    ELSE None

\* the task_info task_mgr.create_backup_task stores: a new task is not running
TaskInfo(task_mode, last_check_point_id) ==
    [state |-> "paused", task_mode |-> task_mode,
     last_check_point_id |-> last_check_point_id]

\* the checkpoint db of a new task
CheckpointDb ==
    [pushed |-> <<>>, finished |-> {}, source_finish |-> FALSE, finish |-> FALSE]

Awaiting(pc, task_mode, last_check_point_id) ==
    [pc |-> pc, task_mode |-> task_mode, last_check_point_id |-> last_check_point_id]

\* create_backup_task up to `await target.get_last_check_point(source_entitiy)`
CreateBackupTask(source_mode, target_mode) ==
    LET task_mode == TaskMode(target_mode, source_mode)
    IN  /\ IF task_mode = "Not supported mode"
           THEN /\ last_call' = Returned("create_backup_task", None, "Exception")
                /\ rpcs' = <<>>
                /\ UNCHANGED creating
           ELSE /\ last_call' = Returned("create_backup_task", None, "await")
                /\ rpcs' = <<Request("get_last_check_point", "source_entitiy")>>
                /\ creating' = creating (+) SetToBag({Awaiting("get_last_check_point",
                                                              task_mode, None)})
        /\ UNCHANGED <<task_mgr, target_check_points, task_checkpoint_db, workers>>

\* the target answers get_last_check_point
GetLastCheckPointAnswered(call) ==
    /\ BagIn(call, creating)
    /\ call.pc = "get_last_check_point"
    /\ creating' = (creating (-) SetToBag({call}))
                   (+) SetToBag({Awaiting("create_backup_task", call.task_mode,
                                          LastCheckPoint)})
    /\ last_call' = Returned("get_last_check_point", None, "last_check_point_id")
    /\ rpcs' = <<>>
    /\ UNCHANGED <<task_mgr, target_check_points, task_checkpoint_db, workers>>

\* the version create_backup_task asks the target to create
NewCheckPointVersion(last_check_point_id) == last_check_point_id + 1

\* a create_backup_task that asks for a check point whatever task_mgr answered
CreatesNewCheckPointAlways(is_exist) == is_exist \in BOOLEAN

\* whether create_backup_task creates a check point on the target
CreatesNewCheckPoint(is_exist) == is_exist = FALSE

\* lines 82-87 for the task there is already (is_exist) or the new one
CreateBackupTaskGoesOn(call, is_exist, backup_task_id) ==
    IF CreatesNewCheckPoint(is_exist)
    THEN /\ rpcs' = <<Request("create_new_check_point",
                              NewCheckPointVersion(call.last_check_point_id))>>
         /\ creating' = (creating (-) SetToBag({call}))
                        (+) SetToBag({[pc |-> "create_new_check_point",
                                       task_mode |-> call.task_mode,
                                       last_check_point_id |-> call.last_check_point_id,
                                       is_exist |-> is_exist,
                                       backup_task_id |-> backup_task_id]})
         /\ last_call' = Returned("create_backup_task:82", backup_task_id, "await")
    ELSE /\ rpcs' = <<>>
         /\ creating' = creating (-) SetToBag({call})
         /\ last_call' = Returned("create_backup_task:82", backup_task_id,
                                  IF is_exist THEN "is_exist" ELSE "new")

\* the coroutine goes on after get_last_check_point: task_mgr.create_backup_task
\* returns the unfinished task of the source entity and the target, or stores
\* a new one; then the check point is asked for, or the call returns
CreateBackupTaskResumes(call) ==
    /\ BagIn(call, creating)
    /\ call.pc = "create_backup_task"
    /\ IF UnfinishedTask # None
       THEN /\ CreateBackupTaskGoesOn(call, TRUE, UnfinishedTask)
            /\ UNCHANGED <<task_mgr, task_checkpoint_db>>
       ELSE LET backup_task_id == Len(task_mgr) + 1
            IN  /\ task_mgr' = Append(task_mgr, TaskInfo(call.task_mode,
                                                        call.last_check_point_id))
                /\ task_checkpoint_db' = Append(task_checkpoint_db, CheckpointDb)
                /\ CreateBackupTaskGoesOn(call, FALSE, backup_task_id)
    /\ UNCHANGED <<target_check_points, workers>>

\* the target answers create_new_check_point; create_backup_task returns
CreateNewCheckPointAnswered(call) ==
    /\ BagIn(call, creating)
    /\ call.pc = "create_new_check_point"
    /\ target_check_points' =
           [target_check_points EXCEPT
               !.created = Append(@, NewCheckPointVersion(call.last_check_point_id))]
    /\ creating' = creating (-) SetToBag({call})
    /\ last_call' = Returned("create_new_check_point", call.backup_task_id, "new")
    /\ rpcs' = <<>>
    /\ UNCHANGED <<task_mgr, task_checkpoint_db, workers>>

Worker(kind, task, pc, chunk, is_finish) ==
    [kind |-> kind, task |-> task, pc |-> pc, chunk |-> chunk, is_finish |-> is_finish]

\* resume_backup_task: "paused" becomes "running", the two threads are started
ResumeBackupTask(backup_task_id) ==
    /\ rpcs' = <<>>
    /\ IF backup_task_id \notin DOMAIN task_mgr
       THEN /\ last_call' = Returned("resume_backup_task", backup_task_id, "Exception")
            /\ UNCHANGED <<task_mgr, workers>>
       ELSE IF task_mgr[backup_task_id].state = "paused"
       THEN /\ task_mgr' = [task_mgr EXCEPT ![backup_task_id].state = "running"]
            /\ workers' = workers
                   (+) SetToBag({Worker("source", backup_task_id, "loop", None, FALSE)})
                   (+) SetToBag({Worker("target", backup_task_id, "loop", None, FALSE)})
            /\ last_call' = Returned("resume_backup_task", backup_task_id, "True")
       ELSE /\ last_call' = Returned("resume_backup_task", backup_task_id, "False")
            /\ UNCHANGED <<task_mgr, workers>>
    /\ UNCHANGED <<target_check_points, task_checkpoint_db, creating>>

\* pause_backup_task: "running" becomes "paused"
PauseBackupTask(backup_task_id) ==
    /\ rpcs' = <<>>
    /\ IF backup_task_id \notin DOMAIN task_mgr
       THEN /\ last_call' = Returned("pause_backup_task", backup_task_id, "Exception")
            /\ UNCHANGED task_mgr
       ELSE IF task_mgr[backup_task_id].state = "running"
       THEN /\ task_mgr' = [task_mgr EXCEPT ![backup_task_id].state = "paused"]
            /\ last_call' = Returned("pause_backup_task", backup_task_id, "True")
       ELSE /\ last_call' = Returned("pause_backup_task", backup_task_id, "False")
            /\ UNCHANGED task_mgr
    /\ UNCHANGED <<target_check_points, task_checkpoint_db, workers, creating>>

\* get_pending_transfor_chunklist: the pushed chunks not yet transferred, oldest first
PendingTransforChunklist(db) ==
    SelectSeq(db.pushed, LAMBDA chunk : chunk \notin db.finished)

\* source.generate_chunk: the next chunk of the source's list, and whether it
\* is the last one
GenerateChunk(db) ==
    [chunk |-> Len(db.pushed) + 1, is_finish |-> Len(db.pushed) + 1 >= MaxChunks]

Goes(w, pc, chunk, is_finish) ==
    (workers (-) SetToBag({w}))
    (+) SetToBag({Worker(w.kind, w.task, pc, chunk, is_finish)})

Ends(w) == workers (-) SetToBag({w})

\* one step of a chunk_source_local_main thread
ChunkSourceLocalMain(w) ==
    /\ BagIn(w, workers)
    /\ w.kind = "source"
    /\ LET db == task_checkpoint_db[w.task]
       IN  CASE w.pc = "loop" ->
                  \* the loop test, the pending list, generate_chunk
                  IF task_mgr[w.task].state # "running"
                  THEN /\ workers' = Ends(w)
                       /\ last_call' = Returned("chunk_source_local_main", w.task, "return")
                       /\ UNCHANGED task_checkpoint_db
                  ELSE /\ Len(PendingTransforChunklist(db)) < max_pending_size
                       /\ workers' = Goes(w, "push_pending_chunk", GenerateChunk(db).chunk,
                                          GenerateChunk(db).is_finish)
                       /\ last_call' = Returned("chunk_source_local_main", w.task,
                                                "generate_chunk")
                       /\ UNCHANGED task_checkpoint_db
             [] w.pc = "push_pending_chunk" ->
                  /\ task_checkpoint_db' =
                         [task_checkpoint_db EXCEPT ![w.task].pushed = Append(@, w.chunk)]
                  /\ workers' = Goes(w, IF w.is_finish THEN "source_finish" ELSE "loop",
                                     None, FALSE)
                  /\ last_call' = Returned("chunk_source_local_main", w.task,
                                           "push_pending_chunk")
             [] w.pc = "source_finish" ->
                  /\ task_checkpoint_db' =
                         [task_checkpoint_db EXCEPT ![w.task].source_finish = TRUE]
                  /\ workers' = Ends(w)
                  /\ last_call' = Returned("chunk_source_local_main", w.task,
                                           "source_finish")
    /\ rpcs' = <<>>
    /\ UNCHANGED <<task_mgr, target_check_points, creating>>

\* pop_chunk on the pending list a thread has just read: its first chunk or None
PopChunk(db) ==
    IF PendingTransforChunklist(db) = <<>> THEN None
    ELSE Head(PendingTransforChunklist(db))

\* the check point of a task on the target
CheckPointOf(task) == NewCheckPointVersion(task_mgr[task].last_check_point_id)

\* one step of a chunk_target_transfor_main thread
ChunkTargetTransforMain(w) ==
    /\ BagIn(w, workers)
    /\ w.kind = "target"
    /\ LET db == task_checkpoint_db[w.task]
       IN  CASE w.pc = "loop" ->
                  \* the loop test, the pending list, pop_chunk
                  /\ IF task_mgr[w.task].state # "running"
                     THEN /\ workers' = Ends(w)
                          /\ last_call' = Returned("chunk_target_transfor_main", w.task,
                                                   "return")
                     ELSE /\ workers' = Goes(w, IF PopChunk(db) = None
                                                THEN "is_source_finish"
                                                ELSE "upload_chunk", PopChunk(db), FALSE)
                          /\ last_call' = Returned("chunk_target_transfor_main", w.task,
                                                   "pop_chunk")
                  /\ rpcs' = <<>>
                  /\ UNCHANGED <<task_mgr, target_check_points, task_checkpoint_db>>
             [] w.pc = "is_source_finish" ->
                  \* no chunk: finish when the source has finished, else sleep
                  /\ workers' = Goes(w, IF db.source_finish THEN "finish_check_point"
                                        ELSE "loop", None, FALSE)
                  /\ last_call' = Returned("chunk_target_transfor_main", w.task,
                                           "is_source_finish")
                  /\ rpcs' = <<>>
                  /\ UNCHANGED <<task_mgr, target_check_points, task_checkpoint_db>>
             [] w.pc = "finish_check_point" ->
                  /\ target_check_points' =
                         [target_check_points EXCEPT
                             !.finished = @ \cup {CheckPointOf(w.task)}]
                  /\ workers' = Goes(w, "finish", None, FALSE)
                  /\ last_call' = Returned("chunk_target_transfor_main", w.task,
                                           "finish_check_point")
                  /\ rpcs' = <<Request("finish_check_point", CheckPointOf(w.task))>>
                  /\ UNCHANGED <<task_mgr, task_checkpoint_db>>
             [] w.pc = "finish" ->
                  /\ task_checkpoint_db' =
                         [task_checkpoint_db EXCEPT ![w.task].finish = TRUE]
                  /\ task_mgr' = [task_mgr EXCEPT ![w.task].state = "finish"]
                  /\ workers' = Ends(w)
                  /\ last_call' = Returned("chunk_target_transfor_main", w.task, "finish")
                  /\ rpcs' = <<>>
                  /\ UNCHANGED target_check_points
             [] w.pc = "upload_chunk" ->
                  /\ target_check_points' =
                         [target_check_points EXCEPT
                             !.uploaded = Append(@, <<CheckPointOf(w.task), w.chunk>>)]
                  /\ workers' = Goes(w, "finish_chunk", w.chunk, FALSE)
                  /\ last_call' = Returned("chunk_target_transfor_main", w.task,
                                           "upload_chunk")
                  /\ rpcs' = <<Request("upload_chunk", w.chunk)>>
                  /\ UNCHANGED <<task_mgr, task_checkpoint_db>>
             [] w.pc = "finish_chunk" ->
                  /\ task_checkpoint_db' =
                         [task_checkpoint_db EXCEPT ![w.task].finished = @ \cup {w.chunk}]
                  /\ workers' = Goes(w, "loop", None, FALSE)
                  /\ last_call' = Returned("chunk_target_transfor_main", w.task,
                                           "finish_chunk")
                  /\ rpcs' = <<>>
                  /\ UNCHANGED <<task_mgr, target_check_points>>
    /\ UNCHANGED creating

----------------------------------------------------------------------------
(* Specifications *)

Versions == 1..MaxCheckpoints

LockFailures == {"none", "unlock_state", "original_state", "lock_state"}

UnlockFailures == {"none", "unlock_state"}

TargetFailures == {"none", "target_checkpoint", "transfer"}

\* a further Checkpoint may be created / the source locked anew / a further
\* call of a Checkpoint started (MaxLockCalls: lock_source calls when the lock
\* protocol is checked alone)
MayCreate == next_checkpoint_version <= MaxCheckpoints

MayLock == next_source_state_id <= MaxLocks

MayLockAlone == next_source_state_id <= MaxLockCalls

MayCall == BagCardinality(calls) < MaxCalls

\* The lock protocol of the Task alone.
NextLock ==
    \/ \E original_state \in OriginalStates, fail \in LockFailures :
            MayLockAlone /\ LockSource(original_state, fail) /\ UNCHANGED other_vars
    \/ \E fail \in UnlockFailures : UnlockSource(fail) /\ UNCHANGED other_vars

SpecLock == Init /\ [][NextLock]_vars

\* The Task and its Checkpoints, cut from the Task's first lock.  The caller
\* has at most one call of a Checkpoint blocked at a time; it may be a call on
\* any Checkpoint, old or new.
Next ==
    \/ \E original_state \in OriginalStates, fail \in LockFailures :
            next_source_state_id = 1 /\ LockSource(original_state, fail) /\ UNCHANGED other_vars
    \/ \E is_delta \in BOOLEAN : MayCreate /\ CreateCheckpoint(is_delta) /\ UNCHANGED other_vars
    \/ \E ver \in Versions : calls = EmptyBag /\ PrepareSource(ver) /\ UNCHANGED other_vars
    \/ \E ver \in Versions : calls = EmptyBag /\ Transfer(ver) /\ UNCHANGED other_vars
    \/ \E ver \in Versions : calls = EmptyBag /\ Stop(ver) /\ UNCHANGED other_vars
    \/ \E ver \in Versions, is_success \in BOOLEAN : PrepareSourceReturns(ver, is_success) /\ UNCHANGED other_vars
    \/ \E ver \in Versions, is_success \in BOOLEAN : TransferPrepareReturns(ver, is_success) /\ UNCHANGED other_vars
    \/ \E ver \in Versions, fail \in TargetFailures : TransferWaitReturns(ver, fail) /\ UNCHANGED other_vars
    \/ \E ver \in Versions : StopSourceReturns(ver) /\ UNCHANGED other_vars
    \/ \E ver \in Versions : StopTargetReturns(ver) /\ UNCHANGED other_vars
    \/ \E ver \in Versions : StopReturns(ver) /\ UNCHANGED other_vars
    \/ \E ver \in Versions : TargetTransferBegins(ver) /\ UNCHANGED other_vars
    \/ \E ver \in Versions : TargetTransferFinishes(ver) /\ UNCHANGED other_vars

Spec == Init /\ [][Next]_vars

\* The life of the first Checkpoint of a Task, with up to MaxCalls calls of it
\* blocked at the same time, while the source is locked and unlocked.
NextCheckpoint ==
    \/ \E original_state \in OriginalStates, fail \in LockFailures :
            MayLock /\ LockSource(original_state, fail) /\ UNCHANGED other_vars
    \/ \E fail \in UnlockFailures : UnlockSource(fail) /\ UNCHANGED other_vars
    \/ next_checkpoint_version = 1 /\ CreateCheckpoint(FALSE) /\ UNCHANGED other_vars
    \/ MayCall /\ PrepareSource(1) /\ UNCHANGED other_vars
    \/ MayCall /\ Transfer(1) /\ UNCHANGED other_vars
    \/ MayCall /\ Stop(1) /\ UNCHANGED other_vars
    \/ \E is_success \in BOOLEAN : PrepareSourceReturns(1, is_success) /\ UNCHANGED other_vars
    \/ \E is_success \in BOOLEAN : TransferPrepareReturns(1, is_success) /\ UNCHANGED other_vars
    \/ \E fail \in TargetFailures : TransferWaitReturns(1, fail) /\ UNCHANGED other_vars
    \/ StopSourceReturns(1) /\ UNCHANGED other_vars
    \/ StopTargetReturns(1) /\ UNCHANGED other_vars
    \/ StopReturns(1) /\ UNCHANGED other_vars
    \/ TargetTransferBegins(1) /\ UNCHANGED other_vars
    \/ TargetTransferFinishes(1) /\ UNCHANGED other_vars

SpecCheckpoint == Init /\ [][NextCheckpoint]_vars

\* a further prepare request may be sent to the source
MayPrepare == Len(scans) < MaxScans

\* The first Checkpoint of a Task together with the source's scan threads.
\* The caller has one call of the Checkpoint blocked at a time, except that
\* stop() may be called while another call is blocked.
NextScan ==
    \/ \E original_state \in OriginalStates :
            /\ next_source_state_id = 1
            /\ LockSource(original_state, "none")
            /\ UNCHANGED other_vars
    \/ next_checkpoint_version = 1 /\ CreateCheckpoint(FALSE) /\ UNCHANGED other_vars
    \/ MayPrepare /\ calls = EmptyBag /\ PrepareSource(1) /\ UNCHANGED other_vars
    \/ MayPrepare /\ calls = EmptyBag /\ Transfer(1) /\ UNCHANGED other_vars
    \/ MayCall /\ Stop(1) /\ UNCHANGED other_vars
    \/ \E is_success \in BOOLEAN :
            PrepareSourceReturns(1, is_success) /\ PrepareAnswered(is_success)
            /\ UNCHANGED checkpoint_others
    \/ \E is_success \in BOOLEAN :
            TransferPrepareReturns(1, is_success) /\ PrepareAnswered(is_success)
            /\ UNCHANGED checkpoint_others
    \/ TransferWaitReturns(1, "none") /\ UNCHANGED other_vars
    \/ StopSourceReturns(1) /\ UNCHANGED other_vars
    \/ StopTargetReturns(1) /\ UNCHANGED other_vars
    \/ StopReturns(1) /\ UNCHANGED other_vars
    \/ TargetTransferBegins(1) /\ UNCHANGED other_vars
    \/ TargetTransferFinishes(1) /\ UNCHANGED other_vars
    \/ \E t \in 1..MaxScans : SourceScanFileList(t) /\ UNCHANGED checkpoint_others

SpecScan == Init /\ [][NextScan]_vars

\* The steps that need no caller: a request is answered, wait_status sees its
\* status, the target worker goes on.  Each is the step of a thread or of a
\* remote service, which the scheduler runs when it can run.
FairCheckpoint ==
    /\ WF_vars(\E is_success \in BOOLEAN :
                   PrepareSourceReturns(1, is_success) /\ UNCHANGED other_vars)
    /\ WF_vars(\E is_success \in BOOLEAN :
                   TransferPrepareReturns(1, is_success) /\ UNCHANGED other_vars)
    /\ WF_vars(\E fail \in TargetFailures :
                   TransferWaitReturns(1, fail) /\ UNCHANGED other_vars)
    /\ WF_vars(StopSourceReturns(1) /\ UNCHANGED other_vars)
    /\ WF_vars(StopTargetReturns(1) /\ UNCHANGED other_vars)
    /\ WF_vars(StopReturns(1) /\ UNCHANGED other_vars)
    /\ WF_vars(TargetTransferBegins(1) /\ UNCHANGED other_vars)
    /\ WF_vars(TargetTransferFinishes(1) /\ UNCHANGED other_vars)

\* SpecCheckpoint under fair scheduling of these steps
SpecCheckpointFair == Init /\ [][NextCheckpoint]_vars /\ FairCheckpoint

\* The Task and its Checkpoints when no request fails and stop() is never
\* called: the caller locks and unlocks the source, creates Checkpoints and
\* calls prepare_source() and transfer(), one call at a time.
NextLive ==
    \/ \E original_state \in OriginalStates :
            MayLock /\ LockSource(original_state, "none") /\ UNCHANGED other_vars
    \/ UnlockSource("none") /\ UNCHANGED other_vars
    \/ \E is_delta \in BOOLEAN : MayCreate /\ CreateCheckpoint(is_delta) /\ UNCHANGED other_vars
    \/ \E ver \in Versions : calls = EmptyBag /\ PrepareSource(ver) /\ UNCHANGED other_vars
    \/ \E ver \in Versions : calls = EmptyBag /\ Transfer(ver) /\ UNCHANGED other_vars
    \/ \E ver \in Versions : PrepareSourceReturns(ver, TRUE) /\ UNCHANGED other_vars
    \/ \E ver \in Versions : TransferPrepareReturns(ver, TRUE) /\ UNCHANGED other_vars
    \/ \E ver \in Versions : TransferWaitReturns(ver, "none") /\ UNCHANGED other_vars
    \/ \E ver \in Versions : TargetTransferBegins(ver) /\ UNCHANGED other_vars
    \/ \E ver \in Versions : TargetTransferFinishes(ver) /\ UNCHANGED other_vars

FairLive ==
    \A ver \in Versions :
        /\ WF_vars(PrepareSourceReturns(ver, TRUE) /\ UNCHANGED other_vars)
        /\ WF_vars(TransferPrepareReturns(ver, TRUE) /\ UNCHANGED other_vars)
        /\ WF_vars(TransferWaitReturns(ver, "none") /\ UNCHANGED other_vars)
        /\ WF_vars(TargetTransferBegins(ver) /\ UNCHANGED other_vars)
        /\ WF_vars(TargetTransferFinishes(ver) /\ UNCHANGED other_vars)

SpecLive == Init /\ [][NextLive]_vars /\ FairLive

\* what the registry leaves alone
registry_others ==
    <<task_vars, calls, created, succeeded, scan_vars, backup_vars, pack_vars>>

\* The Engine: Sources and Targets are registered, Tasks created for any ids.
NextEngine ==
    \/ \E output_types \in SUBSET Modes \ {{}} :
            /\ next_source_id <= MaxSources
            /\ RegisterSource(output_types)
            /\ UNCHANGED registry_others
    \/ \E accept_types \in SUBSET Modes \ {{}} :
            /\ next_target_id <= MaxTargets
            /\ RegisterTarget(accept_types)
            /\ UNCHANGED registry_others
    \/ \E source_id \in 1..MaxSources, target_id \in 1..MaxTargets :
            /\ Len(tasks) < MaxTasks
            /\ CreateTask(source_id, target_id)
            /\ UNCHANGED registry_others

SpecEngine == Init /\ [][NextEngine]_vars

\* what the BackupEngine leaves alone
backup_others ==
    <<task_vars, calls, created, succeeded, scan_vars, registry_vars, pack_vars>>

\* what get_mode answers: the mode of the chunk workers, and one no task mode is for
GetMode == {"chunklist", "object"}

MayCreateBackupTask == BagCardinality(creating) < MaxCreating

MayStoreBackupTask == UnfinishedTask # None \/ Len(task_mgr) < MaxBackupTasks

MayStartWorkers == BagCardinality(workers) + 2 <= MaxWorkers

\* a restarted source thread builds at most one chunk beyond the source's list
MayGenerateChunk(w) ==
    (w.pc = "loop" /\ task_mgr[w.task].state = "running")
        => Len(task_checkpoint_db[w.task].pushed) <= MaxChunks

\* The BackupEngine: tasks are created, resumed and paused by concurrent
\* callers while the worker threads of the resumed tasks run.
NextBackup ==
    \/ \E source_mode \in GetMode, target_mode \in GetMode :
            /\ MayCreateBackupTask
            /\ CreateBackupTask(source_mode, target_mode)
            /\ UNCHANGED backup_others
    \/ \E call \in BagToSet(creating) :
            /\ GetLastCheckPointAnswered(call)
            /\ UNCHANGED backup_others
    \/ \E call \in BagToSet(creating) :
            /\ MayStoreBackupTask
            /\ CreateBackupTaskResumes(call)
            /\ UNCHANGED backup_others
    \/ \E call \in BagToSet(creating) :
            /\ CreateNewCheckPointAnswered(call)
            /\ UNCHANGED backup_others
    \/ \E backup_task_id \in 1..MaxBackupTasks :
            /\ MayStartWorkers
            /\ ResumeBackupTask(backup_task_id)
            /\ UNCHANGED backup_others
    \/ \E backup_task_id \in 1..MaxBackupTasks :
            /\ PauseBackupTask(backup_task_id)
            /\ UNCHANGED backup_others
    \/ \E w \in BagToSet(workers) :
            /\ MayGenerateChunk(w)
            /\ ChunkSourceLocalMain(w)
            /\ UNCHANGED backup_others
    \/ \E w \in BagToSet(workers) :
            /\ ChunkTargetTransforMain(w)
            /\ UNCHANGED backup_others

SpecBackup == Init /\ [][NextBackup]_vars

\* The BackupEngine while no task is paused: concurrent callers create tasks
\* and resume them, and each task runs to its finish.
NextCreate ==
    \/ \E source_mode \in GetMode, target_mode \in GetMode :
            /\ MayCreateBackupTask
            /\ CreateBackupTask(source_mode, target_mode)
            /\ UNCHANGED backup_others
    \/ \E call \in BagToSet(creating) :
            /\ GetLastCheckPointAnswered(call)
            /\ UNCHANGED backup_others
    \/ \E call \in BagToSet(creating) :
            /\ MayStoreBackupTask
            /\ CreateBackupTaskResumes(call)
            /\ UNCHANGED backup_others
    \/ \E call \in BagToSet(creating) :
            /\ CreateNewCheckPointAnswered(call)
            /\ UNCHANGED backup_others
    \/ \E backup_task_id \in 1..MaxBackupTasks :
            /\ MayStartWorkers
            /\ ResumeBackupTask(backup_task_id)
            /\ UNCHANGED backup_others
    \/ \E w \in BagToSet(workers) :
            /\ MayGenerateChunk(w)
            /\ ChunkSourceLocalMain(w)
            /\ UNCHANGED backup_others
    \/ \E w \in BagToSet(workers) :
            /\ ChunkTargetTransforMain(w)
            /\ UNCHANGED backup_others

SpecCreate == Init /\ [][NextCreate]_vars

MayCreateFirstTask == creating = EmptyBag /\ task_mgr = <<>>

MayRestartWorkers == BagCardinality(workers) + 2 <= MaxLiveWorkers

\* One backup task that is paused and resumed while the worker threads of
\* the resume before may still be in their loops.
NextResume ==
    \/ \E source_mode \in GetMode, target_mode \in GetMode :
            /\ MayCreateFirstTask
            /\ CreateBackupTask(source_mode, target_mode)
            /\ UNCHANGED backup_others
    \/ \E call \in BagToSet(creating) :
            /\ GetLastCheckPointAnswered(call)
            /\ UNCHANGED backup_others
    \/ \E call \in BagToSet(creating) :
            /\ CreateBackupTaskResumes(call)
            /\ UNCHANGED backup_others
    \/ \E call \in BagToSet(creating) :
            /\ CreateNewCheckPointAnswered(call)
            /\ UNCHANGED backup_others
    \/ \E backup_task_id \in 1..MaxBackupTasks :
            /\ MayRestartWorkers
            /\ ResumeBackupTask(backup_task_id)
            /\ UNCHANGED backup_others
    \/ \E backup_task_id \in 1..MaxBackupTasks :
            /\ PauseBackupTask(backup_task_id)
            /\ UNCHANGED backup_others
    \/ \E w \in BagToSet(workers) :
            /\ MayGenerateChunk(w)
            /\ ChunkSourceLocalMain(w)
            /\ UNCHANGED backup_others
    \/ \E w \in BagToSet(workers) :
            /\ ChunkTargetTransforMain(w)
            /\ UNCHANGED backup_others

SpecResume == Init /\ [][NextResume]_vars

\* what the chunk pipeline leaves alone
pack_others ==
    <<task_vars, calls, created, succeeded, scan_vars, registry_vars, backup_vars>>

Capacities == 1..MaxCapacity

MayAddNewChunk == Len(chunk_db) < MaxChunkRecords

\* The chunk pipeline of the first Checkpoint of a Task: the source is locked,
\* the Checkpoint transferred, and the target pulls chunks and reads them,
\* one call at a time, while the scan thread fills files_db.
NextPack ==
    \/ \E original_state \in OriginalStates :
            /\ next_source_state_id = 1
            /\ LockSource(original_state, "none")
            /\ UNCHANGED other_vars
    \/ next_checkpoint_version = 1 /\ CreateCheckpoint(FALSE) /\ UNCHANGED other_vars
    \/ Len(scans) < 1 /\ calls = EmptyBag /\ Transfer(1) /\ UNCHANGED other_vars
    \/ \E is_success \in BOOLEAN :
            /\ TransferPrepareReturns(1, is_success)
            /\ PrepareAnswered(is_success)
            /\ UNCHANGED checkpoint_others
    \/ TransferWaitReturns(1, "none") /\ UNCHANGED other_vars
    \/ TargetTransferBegins(1) /\ UNCHANGED other_vars
    \/ TargetTransferFinishes(1) /\ UNCHANGED other_vars
    \/ SourceScanFileList(1) /\ UNCHANGED checkpoint_others
    \/ \E capacity \in Capacities :
            /\ MayAddNewChunk
            /\ pulls = EmptyBag
            /\ NextChunk(1, capacity)
            /\ UNCHANGED pack_others
    \/ \E call \in BagToSet(pulls) :
            /\ NextChunkTestsScanFinish(call)
            /\ UNCHANGED pack_others
    \/ \E call \in BagToSet(pulls) :
            /\ NextChunkWaitReturns(call)
            /\ UNCHANGED pack_others
    \/ \E k \in 1..MaxChunkRecords, offset \in 0..MaxOffset :
            /\ pulls = EmptyBag
            /\ Read(k, offset)
            /\ UNCHANGED pack_others
    \/ \E call \in BagToSet(pulls) :
            /\ ReadWaitReturns(call)
            /\ UNCHANGED pack_others

SpecPack == Init /\ [][NextPack]_vars

----------------------------------------------------------------------------
(* Properties *)

Unfinished == {v \in DOMAIN checkpoints :
                 checkpoints[v].status \notin
                     {STATUS_SUCCESS, STATUS_FAILED, STATUS_STOPPED}}

\* C1: at most one Checkpoint of the Task has a status outside
\* {SUCCESS, FAILED, STOPPED}, whatever calls were made on its Checkpoints
\* (checked under Spec)
C1_AtMostOneUnfinished == Cardinality(Unfinished) <= 1

\* C2: the prev_version of a Checkpoint names a Checkpoint of the same Task
\* with a strictly smaller version whose status is SUCCESS (checked under Spec)
C2_PrevVersionIsSuccess ==
    \A v \in DOMAIN checkpoints :
        LET prev == checkpoints[v].prev_version
        IN  prev # None =>
                /\ prev \in DOMAIN checkpoints
                /\ prev < v
                /\ checkpoints[prev].status = STATUS_SUCCESS

\* C3: the versions create_checkpoint hands out are strictly increasing in
\* creation order (so none is handed out twice), and every version the counter
\* has passed belongs to a created Checkpoint: a rejected call consumes none
\* (checked under Spec)
C3_VersionsStrictlyIncreasing ==
    /\ \A i, j \in 1..Len(created) : i < j => created[i] < created[j]
    /\ next_checkpoint_version = Len(created) + 1
    /\ DOMAIN checkpoints = {created[i] : i \in 1..Len(created)}

C3_Witness ==
    /\ Len(created) >= 2
    /\ last_call = Returned("create_checkpoint", created[Len(created)], "checkpoint")

C5_SuccessInVersionOrder ==
    [][\A v \in DOMAIN checkpoints :
          (/\ checkpoints[v].status # STATUS_SUCCESS
           /\ checkpoints'[v].status = STATUS_SUCCESS)
          => \A w \in succeeded : w <= v]_vars

\* C6: the Task holds at most one LockedState, and exactly the one recorded
\* under locked_source_state_id when that is not None (checked under SpecLock)
C6_AtMostOneLockedState ==
    /\ Cardinality(DOMAIN source_states) <= 1
    /\ locked_source_state_id # None =>
           DOMAIN source_states = {locked_source_state_id}

\* C7: a lock_source call made while a lock is held first requests the release
\* of that lock, with its original_state, and only then original_state and
\* lock_state for the new lock, which is recorded under an id that was never
\* used before (checked under SpecLock)
C7_RelockReleasesFirst ==
    [][(/\ last_call'.op = "lock_source"
        /\ locked_source_state_id # None
        /\ locked_source_state_id \in DOMAIN source_states)
       => (/\ Len(rpcs') >= 1
           /\ rpcs'[1] = Request("unlock_state",
                                 source_states[locked_source_state_id].original_state)
           /\ \A i \in 2..Len(rpcs') :
                  rpcs'[i].method = (IF i = 2 THEN "original_state" ELSE "lock_state")
           /\ Len(rpcs') <= 3
           /\ last_call'.ret = "None" =>
                  /\ Len(rpcs') = 3
                  /\ locked_source_state_id' # locked_source_state_id
                  /\ locked_source_state_id' >= next_source_state_id
                  /\ DOMAIN source_states' = {locked_source_state_id'})]_vars

C7_Witness ==
    /\ last_call = Returned("lock_source", None, "None")
    /\ Len(rpcs) = 3
    /\ rpcs[1].method = "unlock_state"
    /\ locked_source_state_id = 2

\* C8: also after a failed lock_state or unlock_state request the Task is
\* consistent: locked_source_state_id is None or a key of source_states, so
\* that unlock_source can release the source (checked under SpecLock)
C8_LockRecoverable ==
    \/ locked_source_state_id = None
    \/ locked_source_state_id \in DOMAIN source_states

\* the rows of the status table: <<from, to>>
Statuses == STATUS_STANDBY..STATUS_FAILED

TableRows ==
    ({STATUS_STANDBY, STATUS_STOPPED, STATUS_FAILED}
        \X {STATUS_PREPARING, STATUS_STARTING})
    \cup {<<STATUS_PREPARING, STATUS_PREPARE_STARTED>>,
          <<STATUS_PREPARING, STATUS_STARTING>>,
          <<STATUS_PREPARE_STARTED, STATUS_SOURCE_STARTED>>,
          <<STATUS_STARTING, STATUS_SOURCE_STARTED>>,
          <<STATUS_SOURCE_STARTED, STATUS_START>>,
          <<STATUS_START, STATUS_SUCCESS>>,
          <<STATUS_STOPPING, STATUS_SOURCE_STOPPED>>,
          <<STATUS_SOURCE_STOPPED, STATUS_TARGET_STOPPED>>,
          <<STATUS_TARGET_STOPPED, STATUS_STOPPED>>}
    \cup ((Statuses \ {STATUS_SUCCESS, STATUS_FAILED}) \X {STATUS_STOPPING})
    \cup (Statuses \X {STATUS_FAILED})

\* C9: every change of a Checkpoint's status is a row of the status table
\* (checked under SpecCheckpoint)
C9_StatusChangesFollowTable ==
    [][\A v \in DOMAIN checkpoints :
          checkpoints'[v].status # checkpoints[v].status
          => <<checkpoints[v].status, checkpoints'[v].status>> \in TableRows]_vars

\* C10: transfer() called in STARTING, SOURCE_STARTED or START returns
\* "pending", in SUCCESS "ok", in STOPPING, SOURCE_STOPPED or TARGET_STOPPED
\* "invalid-status"; it then changes nothing of the Checkpoint, sends no
\* request and leaves no call waiting (checked under SpecCheckpoint)
C10_TransferReturnsAtOnce ==
    [][\A v \in DOMAIN checkpoints :
          LET status == checkpoints[v].status
              expected ==
                  IF status \in {STATUS_STARTING, STATUS_SOURCE_STARTED, STATUS_START}
                  THEN "pending"
                  ELSE IF status = STATUS_SUCCESS THEN "ok" ELSE "invalid-status"
          IN  (/\ last_call'.op = "transfer"
               /\ last_call'.ver = v
               /\ status \in {STATUS_STARTING, STATUS_SOURCE_STARTED, STATUS_START,
                              STATUS_SUCCESS, STATUS_STOPPING, STATUS_SOURCE_STOPPED,
                              STATUS_TARGET_STOPPED})
              => (/\ last_call'.ret = expected
                  /\ checkpoints' = checkpoints
                  /\ rpcs' = <<>>
                  /\ calls' = calls)]_vars

C10_Witness ==
    /\ last_call = Returned("transfer", 1, "invalid-status")
    /\ checkpoints[1].status = STATUS_STOPPING
    /\ checkpoints[1].target_checkpoint = Null

\* C11: SUCCESS is terminal: no call of prepare_source(), transfer() or stop()
\* and no worker step changes the status of a Checkpoint that is SUCCESS
\* (checked under SpecCheckpoint)
C11_SuccessIsTerminal ==
    [][\A v \in DOMAIN checkpoints :
          checkpoints[v].status = STATUS_SUCCESS
          => checkpoints'[v].status = STATUS_SUCCESS]_vars

\* C12: stop() called in a non-terminal status, also one where no Sourcelocked
\* or TargetCheckPoint is bound yet, sets STOPPING and goes on; each later step
\* of the call sets the next of SOURCE_STOPPED, TARGET_STOPPED, STOPPED and
\* goes on, and the call returns with STOPPED: it never ends with an exception
\* on the way (checked under SpecCheckpoint)
C12_StopRunsToStopped ==
    [][\A v \in DOMAIN checkpoints :
          last_call'.ver = v =>
            /\ (/\ last_call'.op = "stop"
                /\ checkpoints[v].status \notin {STATUS_SUCCESS, STATUS_FAILED})
               => (/\ checkpoints'[v].status = STATUS_STOPPING
                   /\ last_call'.ret = "blocked")
            /\ last_call'.op = "stop:source_locked.stop"
               => (/\ checkpoints'[v].status = STATUS_SOURCE_STOPPED
                   /\ last_call'.ret = "blocked")
            /\ last_call'.op = "stop:target_checkpoint.stop"
               => (/\ checkpoints'[v].status = STATUS_TARGET_STOPPED
                   /\ last_call'.ret = "blocked")
            /\ last_call'.op = "stop:stopped"
               => (/\ checkpoints'[v].status = STATUS_STOPPED
                   /\ last_call'.ret = "None")]_vars

\* C13: a Checkpoint whose status is SOURCE_STARTED or later in the status
\* order has a source_locked, built for its locked_state_id from the locked
\* state the Task recorded under that id (checked under SpecCheckpoint)
C13_StartedHasSourceLocked ==
    \A v \in DOMAIN checkpoints :
        checkpoints[v].status >= STATUS_SOURCE_STARTED
        => LET id == checkpoints[v].locked_state_id
               source_locked == checkpoints[v].source_locked
           IN  /\ source_locked # Null
               /\ source_locked[1] = id
               /\ source_locked[2] \in {LockStateOf(o) : o \in OriginalStates}
               /\ id \in DOMAIN source_states
                  => source_locked[2] = source_states[id].locked_state

\* C16: after a stop-then-resume cycle files_db holds what an uninterrupted
\* run leaves in it: the files of the source in enumeration order, none twice
\* and, once the scan has finished, none missing.  An uninterrupted run has
\* one scan thread; a second one is started only by a prepare_source() or
\* transfer() that runs the Checkpoint again (checked under SpecScan)
C16_CatalogAsUninterrupted ==
    /\ Len(files_db.files) <= Len(SourceEntitiy)
    /\ \A i \in 1..Len(files_db.files) : files_db.files[i] = SourceEntitiy[i]
    /\ (files_db.scan_finish /\ \A t \in DOMAIN scans : scans[t] = ScanEnded)
       => files_db.files = SourceEntitiy

StoppingStatuses ==
    {STATUS_STOPPING, STATUS_SOURCE_STOPPED, STATUS_TARGET_STOPPED, STATUS_STOPPED}

\* C19: while the status of a Checkpoint is STOPPING, SOURCE_STOPPED,
\* TARGET_STOPPED or STOPPED no record is added to files_db, and no step (an
\* answer to the source prepare request among them) sets the status to
\* PREPARE_STARTED, SOURCE_STARTED or FAILED (checked under SpecScan)
C19_NoEffectsOnceStopping ==
    [][\A v \in DOMAIN checkpoints :
          checkpoints[v].status \in StoppingStatuses
          => /\ files_db' = files_db
             /\ checkpoints'[v].status \notin
                    {STATUS_PREPARE_STARTED, STATUS_SOURCE_STARTED, STATUS_FAILED}]_vars

\* C15: with fair scheduling, no failing request and no stop(), a Checkpoint
\* on which transfer() was called reaches SUCCESS, and it enters START from
\* SOURCE_STARTED and SUCCESS from START only (checked under SpecLive)
C15_TransferReachesSuccess ==
    /\ \A v \in Versions :
          (last_call.op = "transfer" /\ last_call.ver = v)
          ~> (v \in DOMAIN checkpoints /\ checkpoints[v].status = STATUS_SUCCESS)
    /\ [][\A v \in DOMAIN checkpoints :
             LET old == checkpoints[v].status
                 new == checkpoints'[v].status
             IN  /\ (new = STATUS_START /\ old # new) => old = STATUS_SOURCE_STARTED
                 /\ (new = STATUS_SUCCESS /\ old # new) => old = STATUS_START]_vars

\* C20: a transfer() call that waits in wait_status while the status of its
\* Checkpoint is STOPPING, SOURCE_STOPPED, TARGET_STOPPED or STOPPED stops
\* waiting (checked under SpecCheckpointFair)
C20_WaitingTransferReturnsOnStop ==
    (/\ 1 \in DOMAIN checkpoints
     /\ checkpoints[1].status \in StoppingStatuses
     /\ Blocked(1, "transfer:wait_status"))
    ~> ~Blocked(1, "transfer:wait_status")

\* the order in which a common mode is preferred
ModePreference == <<"chunklist", "folder2chunk", "chunk2folder", "folder">>

PreferredMode(common) ==
    ModePreference[CHOOSE i \in 1..Len(ModePreference) :
                      /\ ModePreference[i] \in common
                      /\ \A j \in 1..(i - 1) : ModePreference[j] \notin common]

\* C17: create_task for a registered Source and a registered Target fails with
\* IncompatibleModes and creates no Task when the output modes of the one and
\* the accept modes of the other have no mode in common; otherwise the Task
\* it creates has the common mode that comes first in the order chunklist,
\* folder2chunk, chunk2folder, folder, and no other (checked under SpecEngine)
C17_ModeNegotiation ==
    [][(last_call'.op = "create_task" /\ last_call'.ret # "KeyError")
       => LET source_id == rpcs'[2].param
              target_id == rpcs'[1].param
              common == sources[source_id] \cap targets[target_id]
          IN  IF common = {}
              THEN /\ last_call'.ret = "IncompatibleModes"
                   /\ tasks' = tasks
              ELSE /\ Len(tasks') = Len(tasks) + 1
                   /\ tasks'[Len(tasks')].data_type = {PreferredMode(common)}]_vars

----------------------------------------------------------------------------
\* the chunks the target holds for a check point
UploadedTo(version) ==
    {target_check_points.uploaded[i][2] : i \in
        {j \in DOMAIN target_check_points.uploaded :
            target_check_points.uploaded[j][1] = version}}

\* the source of a task has finished and every chunk it pushed is on the target
AllUploaded(task) ==
    /\ task_checkpoint_db[task].source_finish
    /\ \A i \in DOMAIN task_checkpoint_db[task].pushed :
           task_checkpoint_db[task].pushed[i] \in UploadedTo(CheckPointOf(task))

\* C14: a checkpoint is marked finished (finish_check_point sent to the
\* target, the db finished, the task state "finish") only when the source has
\* finished and every chunk the source ever pushed has been uploaded, in every
\* interleaving of the source worker and the target worker.
C14_FinishOnlyWhenAllUploaded ==
    [][\A task \in DOMAIN task_mgr :
          (\/ /\ last_call' = Returned("chunk_target_transfor_main", task,
                                       "finish_check_point")
              /\ rpcs' # <<>>
           \/ /\ task_mgr[task].state # "finish"
              /\ task_mgr'[task].state = "finish")
          => AllUploaded(task)']_vars

\* the backup tasks of the source entity and the target that are not finished
UnfinishedTasks == {id \in DOMAIN task_mgr : task_mgr[id].state # "finish"}

----------------------------------------------------------------------------
\* C21: from create_checkpoint until the Checkpoint reaches SUCCESS or FAILED
\* its locked_state_id is not None and is a key of the Task's source_states:
\* the lock a Checkpoint was cut from is not released while the Checkpoint
\* runs (checked under SpecCheckpoint)
C21_LockHeldWhileCheckpointRuns ==
    \A v \in DOMAIN checkpoints :
        checkpoints[v].status \notin {STATUS_SUCCESS, STATUS_FAILED}
        => /\ checkpoints[v].locked_state_id # None
           /\ checkpoints[v].locked_state_id \in DOMAIN source_states

\* C25: over the whole life of a Checkpoint, stop and a second
\* prepare_source() or transfer() included, set_scan_finish() is not called a
\* second time and no add_file happens after it: every add_file and every
\* set_scan_finish of a scan thread finds the scan not finished (checked
\* under SpecScan)
C25_ScanFinishOnce ==
    [][(\E t \in DOMAIN scans : scans'[t] # scans[t])
          => ~files_db.scan_finish]_vars

\* C28: the run state of a task changes only from "paused" to "running" by a
\* resume_backup_task that returns True, from "running" to "paused" by a
\* pause_backup_task that returns True, and from "running" to "finish" by the
\* target worker; a resume or pause of the task in any other state returns
\* False (checked under SpecBackup)
C28_TaskStateTransitions ==
    [][\A task \in DOMAIN task_mgr :
          LET old == task_mgr[task].state
              new == task_mgr'[task].state
          IN  /\ old # new =>
                    \/ /\ old = "paused" /\ new = "running"
                       /\ last_call' = Returned("resume_backup_task", task, "True")
                    \/ /\ old = "running" /\ new = "paused"
                       /\ last_call' = Returned("pause_backup_task", task, "True")
                    \/ /\ old = "running" /\ new = "finish"
                       /\ last_call' = Returned("chunk_target_transfor_main", task,
                                                "finish")
              /\ (last_call'.op = "resume_backup_task" /\ last_call'.ver = task)
                    => IF old = "paused"
                       THEN new = "running" /\ last_call'.ret = "True"
                       ELSE new = old /\ last_call'.ret = "False"
              /\ (last_call'.op = "pause_backup_task" /\ last_call'.ver = task)
                    => IF old = "running"
                       THEN new = "paused" /\ last_call'.ret = "True"
                       ELSE new = old /\ last_call'.ret = "False"]_vars

\* the worker threads of a kind that are in their loops for a task
WorkersOf(kind, task) ==
    {w \in BagToSet(workers) : w.kind = kind /\ w.task = task}

\* C29: at any time at most one source worker and at most one target worker
\* are active for a task, also when the task is paused and resumed before the
\* workers of the resume before have left their loops (checked under
\* SpecResume)
C29_OneWorkerOfEachKind ==
    \A task \in DOMAIN task_mgr : \A kind \in {"source", "target"} :
        /\ Cardinality(WorkersOf(kind, task)) <= 1
        /\ \A w \in WorkersOf(kind, task) : CopiesIn(w, workers) = 1

\* the chunks uploaded to a check point, in the order of their upload
UploadsTo(version) ==
    LET up == SelectSeq(target_check_points.uploaded,
                        LAMBDA u : u[1] = version)
    IN  [i \in DOMAIN up |-> up[i][2]]

\* where a chunk was pushed first
FirstPushed(task, chunk) ==
    CHOOSE i \in DOMAIN task_checkpoint_db[task].pushed :
        /\ task_checkpoint_db[task].pushed[i] = chunk
        /\ \A j \in 1..(i - 1) : task_checkpoint_db[task].pushed[j] # chunk

\* C26: the chunks of a check point are uploaded in the order they were
\* pushed, and each chunk is uploaded at most once (checked under SpecResume)
C26_UploadedInAllocationOrder ==
    \A task \in DOMAIN task_mgr :
        LET up == UploadsTo(CheckPointOf(task))
        IN  \A i, j \in DOMAIN up :
                i < j => /\ up[i] # up[j]
                         /\ FirstPushed(task, up[i]) < FirstPushed(task, up[j])

----------------------------------------------------------------------------
\* C22: next_chunk returns none exactly when files_db has no unpacked file
\* and the scan has finished; when it allocates and returns a new Chunk there
\* is an unpacked file to put into it, also when the scan finished without a
\* new file while the call was waiting (checked under SpecPack)
C22_NextChunkEndOfStream ==
    [][(last_call' # last_call /\ last_call'.op = "next_chunk"
            /\ last_call'.ret \in {"chunk", "None"})
          => /\ last_call'.ret = "None"
                    <=> (ListUnpackFiles = <<>> /\ files_db.scan_finish)
             /\ last_call'.ret = "chunk" => ListUnpackFiles # <<>>]_vars

\* C23: for every Chunk the lengths of its file blocks add up to its real
\* length, and its real length does not exceed its capacity (checked under
\* SpecPack)
C23_ChunkLengths ==
    \A k \in DOMAIN chunk_db :
        /\ RealLen(chunk_db[k]) = SumLengths(chunk_db[k].blocks)
        /\ RealLen(chunk_db[k]) <= chunk_db[k].capacity

\* C24: a chunk that was marked finished stays finished and receives no
\* further file block (checked under SpecPack)
C24_FinishedChunkIsImmutable ==
    [][\A k \in DOMAIN chunk_db :
          chunk_db[k].finish => /\ chunk_db'[k].finish
                                /\ chunk_db'[k].blocks = chunk_db[k].blocks]_vars

\* the files of the file blocks, read in chunk order and block order
RECURSIVE PackedInOrder(_)
PackedInOrder(db) ==
    IF db = <<>> THEN <<>>
    ELSE [b \in DOMAIN Head(db).blocks |-> Head(db).blocks[b].file]
         \o PackedInOrder(Tail(db))

====
